---- MODULE Spec2Model ----
(***************************************************************************)
(* Products, promotions and the store of the bestbuy inventory program     *)
(* (src/products.py, src/store.py).                                         *)
(*                                                                         *)
(* Product objects live in `products` (the heap, in creation order); the   *)
(* Store's list holds references (indices) to them.  Money is kept in      *)
(* hundredths of a currency unit, so that the halves of SecondHalfPrice    *)
(* and the percents of PercentDiscount are exact integers.                 *)
(***************************************************************************)
EXTENDS Integers, Sequences, FiniteSets, TLC

VARIABLES products, store, ret

vars == <<products, store, ret>>

(* ----------------------------- bounds ---------------------------------- *)
MaxQty == 3
MaxPrice == 3
MaxMaximum == 2
MaxObjs == 2
MaxLines == 2

(* ------------------------- argument domains ---------------------------- *)
Names == {"", "A"}
Prices == -1..MaxPrice
Quantities == -1..MaxQty
BuyQuantities == -1..(MaxQty + 1)
Maximums == 1..MaxMaximum
Kinds == {"Standard", "NonStocked", "Limited"}

NoPromotion == [type |-> "None", percent |-> 0]
Promotions ==
    { [type |-> "SecondHalfPrice", percent |-> 0],
      [type |-> "ThirdOneFree", percent |-> 0],
      [type |-> "PercentDiscount", percent |-> 30] }

(* The observation of the last call: which operation ran, on which object, *)
(* with which argument, the error it raised ("none" when it returned) and  *)
(* the value it returned.  `list` and `done` are used by Store.order: the  *)
(* shopping list and the number of lines whose buy returned.               *)
NoCall ==
    [op |-> "init", obj |-> 0, q |-> 0, list |-> <<>>, done |-> 0,
     err |-> "none", value |-> 0]

Call(op, obj, q, err, value) ==
    [op |-> op, obj |-> obj, q |-> q, list |-> <<>>, done |-> 0,
     err |-> err, value |-> value]

(* ------------------------------ Promotion ------------------------------ *)
(* Faulty variant of SecondHalfPriceApply: no special case for one unit. *)
SecondHalfPriceNoSingle(price, quantity) ==
    LET full_price_quantity == quantity \div 2
        half_price_quantity == quantity - full_price_quantity
    IN (full_price_quantity * price * 100) + (half_price_quantity * price * 50)

SecondHalfPriceApply(price, quantity) ==
    IF quantity = 1
    THEN price * 100
    ELSE LET full_price_quantity == quantity \div 2
             half_price_quantity == quantity - full_price_quantity
         IN (full_price_quantity * price * 100) + (half_price_quantity * price * 50)

(* Faulty variant of ThirdOneFreeApply: the units beyond the last complete *)
(* group of three are free as well.                                        *)
ThirdOneFreeDropsRemainder(price, quantity) ==
    LET free_quantity == quantity \div 3
        paid_quantity == 2 * free_quantity
    IN paid_quantity * price * 100

ThirdOneFreeApply(price, quantity) ==
    LET free_quantity == quantity \div 3
        paid_quantity == quantity - free_quantity
    IN paid_quantity * price * 100

PercentDiscountApply(percent, price, quantity) ==
    LET total_price == price * quantity
    IN (total_price * 100) - (total_price * percent)

apply_promotion(promotion, product, quantity) ==
    CASE promotion.type = "SecondHalfPrice" ->
            SecondHalfPriceApply(product.price, quantity)
      [] promotion.type = "ThirdOneFree" ->
            ThirdOneFreeApply(product.price, quantity)
      [] promotion.type = "PercentDiscount" ->
            PercentDiscountApply(promotion.percent, product.price, quantity)

(* ------------------------------- Product ------------------------------- *)
(* Faulty variant of InitError: a price of 0 is rejected. *)
InitErrorRejectsFree(name, price, quantity) ==
    IF name = "" THEN "InvalidAttribute"
    ELSE IF price <= 0 THEN "InvalidAttribute"
    ELSE IF quantity < 0 THEN "InvalidAttribute"
    ELSE "none"

(* Product.__init__: the error raised by the argument checks, in order. *)
InitError(name, price, quantity) ==
    IF name = "" THEN "InvalidAttribute"
    ELSE IF price < 0 THEN "InvalidAttribute"
    ELSE IF quantity < 0 THEN "InvalidAttribute"
    ELSE "none"

NewProduct(kind, name, price, quantity, maximum) ==
    [kind |-> kind, name |-> name, price |-> price, quantity |-> quantity,
     active |-> TRUE, promotion |-> NoPromotion, maximum |-> maximum]

(* Product(...), NonStockedProduct(name, price) and LimitedProduct(...):   *)
(* NonStockedProduct passes quantity=0 to Product.__init__; only           *)
(* LimitedProduct has a maximum (0 stands for "no such attribute").        *)
Construct(kind, name, price, quantity, maximum) ==
    LET qty == IF kind = "NonStocked" THEN 0 ELSE quantity
        mx == IF kind = "Limited" THEN maximum ELSE 0
        e == InitError(name, price, qty)
    IN /\ products' = IF e = "none"
                      THEN Append(products, NewProduct(kind, name, price, qty, mx))
                      ELSE products
       /\ ret' = Call("construct", IF e = "none" THEN Len(products) + 1 ELSE 0,
                      qty, e, 0)
       /\ UNCHANGED store

deactivate(p) == [p EXCEPT !.active = FALSE]

(* Faulty variant of BuyError: a Limited product checks the stock before   *)
(* the maximum.                                                            *)
BuyErrorStockFirst(p, quantity) ==
    CASE p.kind = "Standard" ->
            IF quantity <= 0 THEN "InvalidQuantity"
            ELSE IF quantity > p.quantity THEN "InsufficientStock"
            ELSE "none"
      [] p.kind = "NonStocked" ->
            IF quantity <= 0 THEN "InvalidQuantity" ELSE "none"
      [] p.kind = "Limited" ->
            IF quantity <= 0 THEN "InvalidQuantity"
            ELSE IF quantity > p.quantity THEN "InsufficientStock"
            ELSE IF quantity > p.maximum THEN "ExceedsOrderLimit"
            ELSE "none"

(* Faulty variant of BuyError: a NonStocked product inherits the stock     *)
(* check of Product.buy.                                                   *)
BuyErrorNonStockedChecksStock(p, quantity) ==
    IF quantity <= 0 THEN "InvalidQuantity"
    ELSE IF p.kind = "Limited" /\ quantity > p.maximum THEN "ExceedsOrderLimit"
    ELSE IF quantity > p.quantity THEN "InsufficientStock"
    ELSE "none"

(* The error of buy(quantity), by variant: Product.buy, NonStockedProduct.buy, *)
(* LimitedProduct.buy. *)
BuyError(p, quantity) ==
    CASE p.kind = "Standard" ->
            IF quantity <= 0 THEN "InvalidQuantity"
            ELSE IF quantity > p.quantity THEN "InsufficientStock"
            ELSE "none"
      [] p.kind = "NonStocked" ->
            IF quantity <= 0 THEN "InvalidQuantity" ELSE "none"
      [] p.kind = "Limited" ->
            IF quantity <= 0 THEN "InvalidQuantity"
            ELSE IF quantity > p.maximum THEN "ExceedsOrderLimit"
            ELSE IF quantity > p.quantity THEN "InsufficientStock"
            ELSE "none"

(* Faulty variant of BuyTotal: the promotion is ignored. *)
BuyTotalNoPromotion(p, quantity) == quantity * p.price * 100

(* The total a buy that passed its checks returns. *)
BuyTotal(p, quantity) ==
    IF p.promotion # NoPromotion
    THEN apply_promotion(p.promotion, p, quantity)
    ELSE quantity * p.price * 100

(* Faulty variant of BuyEffect: one unit is taken whatever the quantity. *)
BuyEffectTakesOne(p, quantity) ==
    IF p.kind = "NonStocked" THEN p
    ELSE LET taken == [p EXCEPT !.quantity = p.quantity - 1]
         IN IF taken.quantity = 0 THEN deactivate(taken) ELSE taken

(* Faulty variant of BuyEffect: a product bought empty stays active. *)
BuyEffectNoDeactivate(p, quantity) ==
    IF p.kind = "NonStocked"
    THEN p
    ELSE [p EXCEPT !.quantity = p.quantity - quantity]

(* The product after a buy that passed its checks. *)
BuyEffect(p, quantity) ==
    IF p.kind = "NonStocked"
    THEN p
    ELSE LET bought == [p EXCEPT !.quantity = p.quantity - quantity]
         IN IF bought.quantity = 0 THEN deactivate(bought) ELSE bought

(* Faulty variant of Buy: the stock is taken before the stock check, so a  *)
(* buy that fails for lack of stock leaves the product emptied.            *)
BuyTakesBeforeCheck(o, quantity) ==
    LET p == products[o]
        e == BuyError(p, quantity)
    IN /\ products' = IF e = "none"
                      THEN [products EXCEPT ![o] = BuyEffect(p, quantity)]
                      ELSE IF e = "InsufficientStock"
                      THEN [products EXCEPT ![o] = BuyEffect(p, p.quantity)]
                      ELSE products
       /\ ret' = Call("buy", o, quantity, e,
                      IF e = "none" THEN BuyTotal(p, quantity) ELSE 0)
       /\ UNCHANGED store

Buy(o, quantity) ==
    LET p == products[o]
        e == BuyError(p, quantity)
    IN /\ products' = IF e = "none"
                      THEN [products EXCEPT ![o] = BuyEffect(p, quantity)]
                      ELSE products
       /\ ret' = Call("buy", o, quantity, e,
                      IF e = "none" THEN BuyTotal(p, quantity) ELSE 0)
       /\ UNCHANGED store

(* Faulty variant of SetQuantity: a positive quantity reactivates the product. *)
SetQuantityReactivates(o, quantity) ==
    LET p == products[o]
        e == IF quantity < 0 THEN "InvalidQuantity" ELSE "none"
        set == [p EXCEPT !.quantity = quantity, !.active = TRUE]
    IN /\ products' = IF e # "none" THEN products
                      ELSE [products EXCEPT
                              ![o] = IF quantity = 0 THEN deactivate(set) ELSE set]
       /\ ret' = Call("set_quantity", o, quantity, e, 0)
       /\ UNCHANGED store

SetQuantity(o, quantity) ==
    LET p == products[o]
        e == IF quantity < 0 THEN "InvalidQuantity" ELSE "none"
        set == [p EXCEPT !.quantity = quantity]
    IN /\ products' = IF e # "none" THEN products
                      ELSE [products EXCEPT
                              ![o] = IF quantity = 0 THEN deactivate(set) ELSE set]
       /\ ret' = Call("set_quantity", o, quantity, e, 0)
       /\ UNCHANGED store

(* Faulty variant of Activate: the quantity is not looked at. *)
ActivateAlways(o) ==
    /\ products' = [products EXCEPT ![o].active = TRUE]
    /\ ret' = Call("activate", o, 0, "none", 1)
    /\ UNCHANGED store

Activate(o) ==
    LET p == products[o]
    IN /\ products' = IF p.quantity > 0
                      THEN [products EXCEPT ![o].active = TRUE]
                      ELSE products
       /\ ret' = Call("activate", o, 0, "none", IF p.quantity > 0 THEN 1 ELSE 0)
       /\ UNCHANGED store

Deactivate(o) ==
    /\ products' = [products EXCEPT ![o] = deactivate(products[o])]
    /\ ret' = Call("deactivate", o, 0, "none", 1)
    /\ UNCHANGED store

SetPromotion(o, promotion) ==
    /\ products' = [products EXCEPT ![o].promotion = promotion]
    /\ ret' = Call("set_promotion", o, 0, "none", 0)
    /\ UNCHANGED store

(* ------------------ one product, any sequence of calls ------------------ *)
Init ==
    /\ products = <<>>
    /\ store = <<>>
    /\ ret = NoCall

ConstructOne ==
    /\ products = <<>>
    /\ \E kind \in Kinds, name \in Names, price \in Prices,
          quantity \in Quantities, maximum \in Maximums :
          Construct(kind, name, price, quantity, maximum)

BuyAny == \E o \in DOMAIN products, q \in BuyQuantities : Buy(o, q)

SetQuantityAny == \E o \in DOMAIN products, q \in Quantities : SetQuantity(o, q)

ActivateAny == \E o \in DOMAIN products : Activate(o)

DeactivateAny == \E o \in DOMAIN products : Deactivate(o)

SetPromotionAny ==
    \E o \in DOMAIN products, pr \in Promotions \cup {NoPromotion} :
        SetPromotion(o, pr)

Next ==
    \/ ConstructOne
    \/ BuyAny
    \/ SetQuantityAny
    \/ ActivateAny
    \/ DeactivateAny
    \/ SetPromotionAny

Spec == Init /\ [][Next]_vars

(* -------------------------------- Store -------------------------------- *)
(* Store.order: the loop over the shopping list from line i on, with the   *)
(* total so far.  A line is <<product reference, quantity>>.  A buy that   *)
(* raises ends the loop: the products stay as the earlier lines left them. *)
RECURSIVE OrderRun(_, _, _, _)

(* Faulty variant of OrderRun: the total is assigned, not accumulated. *)
OrderRunLastTotal(ps, shopping_list, i, total_price) ==
    IF i > Len(shopping_list)
    THEN [products |-> ps, done |-> i - 1, err |-> "none", value |-> total_price]
    ELSE LET product == shopping_list[i][1]
             quantity == shopping_list[i][2]
             e == BuyError(ps[product], quantity)
         IN IF e # "none"
            THEN [products |-> ps, done |-> i - 1, err |-> e, value |-> 0]
            ELSE OrderRun([ps EXCEPT ![product] = BuyEffect(ps[product], quantity)],
                          shopping_list, i + 1,
                          BuyTotal(ps[product], quantity))

OrderRun(ps, shopping_list, i, total_price) ==
    IF i > Len(shopping_list)
    THEN [products |-> ps, done |-> i - 1, err |-> "none", value |-> total_price]
    ELSE LET product == shopping_list[i][1]
             quantity == shopping_list[i][2]
             e == BuyError(ps[product], quantity)
         IN IF e # "none"
            THEN [products |-> ps, done |-> i - 1, err |-> e, value |-> 0]
            ELSE OrderRun([ps EXCEPT ![product] = BuyEffect(ps[product], quantity)],
                          shopping_list, i + 1,
                          total_price + BuyTotal(ps[product], quantity))

(* Faulty variant of OrderOutcome: a failing order undoes its earlier lines. *)
OrderOutcomeRollback(ps, shopping_list) ==
    LET r == OrderRun(ps, shopping_list, 1, 0)
    IN IF r.err # "none" THEN [r EXCEPT !.products = ps] ELSE r

OrderOutcome(ps, shopping_list) == OrderRun(ps, shopping_list, 1, 0)

Order(shopping_list) ==
    LET r == OrderOutcome(products, shopping_list)
    IN /\ products' = r.products
       /\ ret' = [op |-> "order", obj |-> 0, q |-> 0, list |-> shopping_list,
                  done |-> r.done, err |-> r.err, value |-> r.value]
       /\ UNCHANGED store

(* --------------- a store of products, any sequence of orders ----------- *)
(* every product of the store has the same unit price *)
StorePrices == {p \in Prices : p >= MaxPrice}
OrderQuantities == 0..MaxQty

(* The products main() hands to Store(...): constructed with valid         *)
(* arguments; a Standard product then gets SecondHalfPrice, ThirdOneFree   *)
(* or no promotion, a NonStocked one the PercentDiscount, a Limited one    *)
(* none.                                                                   *)
MainPromotions(kind) ==
    CASE kind = "Standard" ->
            {pr \in Promotions : pr.type \in {"SecondHalfPrice", "ThirdOneFree"}}
                \cup {NoPromotion}
      [] kind = "NonStocked" -> {pr \in Promotions : pr.type = "PercentDiscount"}
      [] kind = "Limited" -> {NoPromotion}

StockedProducts ==
    UNION { { [NewProduct(kind, "A", price,
                          IF kind = "NonStocked" THEN 0 ELSE quantity,
                          IF kind = "Limited" THEN maximum ELSE 0)
                 EXCEPT !.promotion = pr] :
                price \in StorePrices, quantity \in 0..MaxQty,
                maximum \in Maximums, pr \in MainPromotions(kind) } :
            kind \in Kinds }

InitStore ==
    /\ products \in [1..MaxObjs -> StockedProducts]
    /\ store = [i \in 1..MaxObjs |-> i]
    /\ ret = NoCall

Lines == (DOMAIN products) \X OrderQuantities

ShoppingLists == UNION { [1..n -> Lines] : n \in 0..MaxLines }

OrderAny == \E shopping_list \in ShoppingLists : Order(shopping_list)

NextStore == OrderAny

SpecStore == InitStore /\ [][NextStore]_vars

(* ---------------------- Store: the product list ------------------------ *)
(* `product in self.products`: Product defines no __eq__, so list          *)
(* membership compares object identity, here the reference.                *)
InStore(stored, o) == \E i \in DOMAIN stored : stored[i] = o

(* list.remove(x): the list without its first entry equal to x. *)
RECURSIVE RemoveFirst(_, _)
RemoveFirst(stored, o) ==
    IF stored = <<>> THEN <<>>
    ELSE IF Head(stored) = o THEN Tail(stored)
    ELSE <<Head(stored)>> \o RemoveFirst(Tail(stored), o)

(* Faulty variant of AddProduct: no membership test. *)
AddProductUnchecked(o) ==
    /\ store' = Append(store, o)
    /\ ret' = Call("add_product", o, 0, "none", 0)
    /\ UNCHANGED products

AddProduct(o) ==
    LET e == IF InStore(store, o) THEN "DuplicateProduct" ELSE "none"
    IN /\ store' = IF e = "none" THEN Append(store, o) ELSE store
       /\ ret' = Call("add_product", o, 0, e, 0)
       /\ UNCHANGED products

(* Faulty variant of RemoveProduct: the last entry is removed (pop). *)
RemoveProductPops(o) ==
    /\ store' = IF InStore(store, o) THEN SubSeq(store, 1, Len(store) - 1) ELSE store
    /\ ret' = Call("remove_product", o, 0, "none",
                   IF InStore(store, o) THEN 1 ELSE 0)
    /\ UNCHANGED products

RemoveProduct(o) ==
    /\ store' = IF InStore(store, o) THEN RemoveFirst(store, o) ELSE store
    /\ ret' = Call("remove_product", o, 0, "none",
                   IF InStore(store, o) THEN 1 ELSE 0)
    /\ UNCHANGED products

(* sum(product.quantity for product in self.products) *)
RECURSIVE TotalQuantity(_, _)
TotalQuantity(ps, stored) ==
    IF stored = <<>> THEN 0
    ELSE ps[Head(stored)].quantity + TotalQuantity(ps, Tail(stored))

GetTotalQuantity ==
    /\ ret' = Call("get_total_quantity", 0, 0, "none", TotalQuantity(products, store))
    /\ UNCHANGED <<products, store>>

RECURSIVE ActiveProducts(_, _)

(* Faulty variant of ActiveProducts: the products in stock are listed. *)
ProductsInStock(ps, stored) ==
    IF stored = <<>> THEN <<>>
    ELSE (IF ps[Head(stored)].quantity > 0 THEN <<Head(stored)>> ELSE <<>>)
         \o ActiveProducts(ps, Tail(stored))

(* [product for product in self.products if product.active] *)
ActiveProducts(ps, stored) ==
    IF stored = <<>> THEN <<>>
    ELSE (IF ps[Head(stored)].active THEN <<Head(stored)>> ELSE <<>>)
         \o ActiveProducts(ps, Tail(stored))

GetAllProducts ==
    /\ ret' = [Call("get_all_products", 0, 0, "none", 0)
                 EXCEPT !.list = ActiveProducts(products, store)]
    /\ UNCHANGED <<products, store>>

(* ------- an empty store filled and emptied, its products bought -------- *)
MaxStock == 2
CatalogNames == {"A", "B"}

(* The products handed to add_product: Standard products, fresh from      *)
(* their constructor.                                                      *)
CatalogProducts ==
    { NewProduct("Standard", name, price, quantity, 0) :
        name \in CatalogNames, price \in StorePrices, quantity \in 0..MaxStock }

InitCatalog ==
    /\ products \in [1..MaxObjs -> CatalogProducts]
    /\ store = <<>>
    /\ ret = NoCall

AddProductAny == \E o \in DOMAIN products : AddProduct(o)

BuyStocked == \E o \in DOMAIN products, q \in 1..MaxStock : Buy(o, q)

RemoveProductAny == \E o \in DOMAIN products : RemoveProduct(o)

NextCatalog ==
    \/ AddProductAny
    \/ RemoveProductAny
    \/ GetAllProducts
    \/ GetTotalQuantity
    \/ BuyStocked
    \/ DeactivateAny

SpecCatalog == InitCatalog /\ [][NextCatalog]_vars

(* ======================= claims on one product ========================= *)
StockTracked(p) == p.kind \in {"Standard", "Limited"}

(* A step that is a call of buy (no other operation leaves op = "buy");    *)
(* ret' names its receiver and argument.                                   *)
BuyStep == ret'.op = "buy"

(* C1: in every reachable state of a Standard or Limited product, quantity *)
(* 0 goes with active = FALSE.  (Stated as claimed; the constructor breaks *)
(* it: Product("A", 2, 0) is active with quantity 0.)                      *)
C1_ZeroQuantityIsInactive ==
    \A o \in DOMAIN products :
        (StockTracked(products[o]) /\ products[o].quantity = 0)
            => products[o].active = FALSE

(* C2 as claimed: right after a successful buy on any product, quantity is *)
(* not negative and quantity 0 implies the product is inactive.            *)
C2_AfterBuyAnyProduct ==
    (ret.op = "buy" /\ ret.err = "none") =>
        /\ products[ret.obj].quantity >= 0
        /\ products[ret.obj].quantity = 0 => products[ret.obj].active = FALSE

(* C2 amended: right after a successful buy on a Standard or Limited       *)
(* product, quantity is not negative and quantity 0 implies inactive; on   *)
(* any product the quantity is not negative.                               *)
C2_AfterBuyStockTracked ==
    (ret.op = "buy" /\ ret.err = "none") =>
        /\ products[ret.obj].quantity >= 0
        /\ (StockTracked(products[ret.obj]) /\ products[ret.obj].quantity = 0)
              => products[ret.obj].active = FALSE

C2_Witness ==
    /\ ret.op = "buy" /\ ret.err = "none"
    /\ StockTracked(products[ret.obj])
    /\ products[ret.obj].quantity = 0
    /\ products[ret.obj].active = FALSE

(* C3: a buy that fails changes nothing of the product (quantity, active,  *)
(* price, promotion); a positive quantity above the stock of a Standard    *)
(* product (or of a Limited one, within its maximum) fails with            *)
(* InsufficientStock.                                                      *)
C3_FailedBuyChangesNothing ==
    [][BuyStep =>
         LET p == products[ret'.obj]
             q == ret'.q
         IN /\ ret'.err # "none" => (products' = products /\ store' = store)
            /\ (/\ q > 0
                /\ q > p.quantity
                /\ \/ p.kind = "Standard"
                   \/ p.kind = "Limited" /\ q <= p.maximum)
               => (ret'.err = "InsufficientStock" /\ products' = products)
            /\ ret'.err \in {"InvalidQuantity", "InsufficientStock",
                             "ExceedsOrderLimit"}
               => (q <= 0 \/ q > p.quantity \/ (p.kind = "Limited" /\ q > p.maximum))
      ]_vars

C3_Witness ==
    /\ ret.op = "buy" /\ ret.err = "InsufficientStock"
    /\ products[ret.obj].quantity > 0
    /\ products[ret.obj].active
    /\ products[ret.obj].promotion # NoPromotion

(* C5: on a Limited product, buy(q) with q >= 1 fails with                 *)
(* ExceedsOrderLimit whenever q > maximum (whatever the stock), and        *)
(* succeeds whenever q <= maximum and q <= stock.                          *)
C5_LimitBeforeStock ==
    [][(BuyStep /\ products[ret'.obj].kind = "Limited" /\ ret'.q >= 1) =>
         LET p == products[ret'.obj]
             q == ret'.q
         IN /\ q > p.maximum => ret'.err = "ExceedsOrderLimit"
            /\ (q <= p.maximum /\ q <= p.quantity) => ret'.err = "none"
      ]_vars

(* a Limited buy over the maximum and over the stock: ExceedsOrderLimit *)
C5_Witness ==
    /\ ret.op = "buy" /\ ret.err = "ExceedsOrderLimit"
    /\ products[ret.obj].kind = "Limited"
    /\ ret.q > products[ret.obj].maximum
    /\ ret.q > products[ret.obj].quantity
    /\ products[ret.obj].quantity > 0

(* C7: a NonStocked product's quantity is 0 in every reachable state.      *)
(* (Stated as claimed; the inherited set_quantity breaks it.)              *)
C7_NonStockedQuantityIsZero ==
    \A o \in DOMAIN products :
        products[o].kind = "NonStocked" => products[o].quantity = 0

(* C8: on a NonStocked product every buy of a positive quantity succeeds   *)
(* and leaves quantity and active as they were.                            *)
C8_NonStockedBuy ==
    [][(BuyStep /\ products[ret'.obj].kind = "NonStocked" /\ ret'.q >= 1) =>
         /\ ret'.err = "none"
         /\ products'[ret'.obj].quantity = products[ret'.obj].quantity
         /\ products'[ret'.obj].active = products[ret'.obj].active
      ]_vars

(* a NonStocked buy of more units than its quantity field, while active *)
C8_Witness ==
    /\ ret.op = "buy" /\ ret.err = "none"
    /\ products[ret.obj].kind = "NonStocked"
    /\ ret.q > products[ret.obj].quantity
    /\ products[ret.obj].active

(* C9: a successful buy(q) on a Standard or Limited product decreases      *)
(* quantity by exactly q and returns price * q without a promotion, and    *)
(* the result of the promotion attached at that moment otherwise.          *)
C9_BuyDecrementAndTotal ==
    [][(BuyStep /\ ret'.err = "none" /\ StockTracked(products[ret'.obj])) =>
         LET p == products[ret'.obj]
             q == ret'.q
         IN /\ products'[ret'.obj].quantity = p.quantity - q
            /\ p.promotion = NoPromotion => ret'.value = p.price * q * 100
            /\ p.promotion # NoPromotion
                 => ret'.value = apply_promotion(p.promotion, p, q)
      ]_vars

(* a buy whose promotion made the total differ from price * q *)
C9_Witness ==
    /\ ret.op = "buy" /\ ret.err = "none"
    /\ StockTracked(products[ret.obj])
    /\ products[ret.obj].promotion # NoPromotion
    /\ ret.value # products[ret.obj].price * ret.q * 100
    /\ ret.value > 0

(* ========================= claims on the store ========================= *)
(* The units of product o that lines 1..n of a shopping list ask for. *)
RECURSIVE Units(_, _, _)
Units(shopping_list, o, n) ==
    IF n = 0 THEN 0
    ELSE Units(shopping_list, o, n - 1)
         + (IF shopping_list[n][1] = o THEN shopping_list[n][2] ELSE 0)

(* The sum over lines 1..n of price * quantity, or of the line's promotion. *)
RECURSIVE LineTotals(_, _, _)
LineTotals(ps, shopping_list, n) ==
    IF n = 0 THEN 0
    ELSE LET p == ps[shopping_list[n][1]]
             q == shopping_list[n][2]
         IN LineTotals(ps, shopping_list, n - 1)
            + (IF p.promotion = NoPromotion
               THEN p.price * q * 100
               ELSE apply_promotion(p.promotion, p, q))

(* Product o after the first n lines of the list were bought from `before`: *)
(* a stock-tracked product lost the units of those lines and is inactive   *)
(* if that emptied it; nothing else changed.                               *)
AfterLines(before, shopping_list, o, n) ==
    LET u == Units(shopping_list, o, n)
    IN IF StockTracked(before) /\ u > 0
       THEN [before EXCEPT !.quantity = before.quantity - u,
                           !.active = IF before.quantity - u = 0
                                      THEN FALSE ELSE before.active]
       ELSE before

OrderStep == ret'.op = "order"

(* C4: when the buy of line k fails, order fails with that line's error,   *)
(* the decrements and deactivations of lines 1..k-1 stay applied and no    *)
(* product is touched by line k or the lines after it.                     *)
C4_OrderNotTransactional ==
    [][(OrderStep /\ ret'.err # "none") =>
         LET sl == ret'.list
             k == ret'.done + 1
         IN /\ k <= Len(sl)
            /\ \A o \in DOMAIN products :
                  products'[o] = AfterLines(products[o], sl, o, k - 1)
            /\ ret'.err = BuyError(AfterLines(products[sl[k][1]], sl, sl[k][1], k - 1),
                                   sl[k][2])
            /\ \A i \in 1..(k - 1) : sl[i][2] >= 1
      ]_vars

(* an order whose second line failed after its first emptied a product *)
C4_Witness ==
    /\ ret.op = "order" /\ ret.err = "InsufficientStock"
    /\ ret.done = 1 /\ Len(ret.list) = 2
    /\ ret.list[1][1] # ret.list[2][1]
    /\ products[ret.list[1][1]].quantity = 0
    /\ products[ret.list[1][1]].active = FALSE
    /\ products[ret.list[2][1]].active

(* C6: within one order call, the units of one Limited product bought      *)
(* over all lines naming it do not exceed its maximum.  (Stated as         *)
(* claimed; the limit is checked per line, so two lines of 1 unit buy 2    *)
(* units of a product whose maximum is 1.)                                 *)
C6_LimitPerOrder ==
    ret.op = "order" =>
        \A o \in DOMAIN products :
            products[o].kind = "Limited"
                => Units(ret.list, o, ret.done) <= products[o].maximum

(* C10: when every line succeeds, order returns the sum of the per-line    *)
(* totals and each stock-tracked product has lost the units of the lines   *)
(* naming it; 50 of a Standard product with quantity 100 and price 1450    *)
(* return 72500 and leave 50.                                              *)
C10_OrderSuccess ==
    [][(OrderStep /\ ret'.err = "none") =>
         LET sl == ret'.list
         IN /\ ret'.done = Len(sl)
            /\ ret'.value = LineTotals(products, sl, Len(sl))
            /\ \A o \in DOMAIN products :
                  products'[o] = AfterLines(products[o], sl, o, Len(sl))
            /\ LET r == OrderOutcome(<<NewProduct("Standard", "A", 1450, 100, 0)>>,
                                     << <<1, 50>> >>)
               IN /\ r.err = "none"
                  /\ r.value = 72500 * 100
                  /\ r.products[1].quantity = 50
      ]_vars

(* a two-line order on one product with a promotion, both lines bought *)
C10_Witness ==
    /\ ret.op = "order" /\ ret.err = "none"
    /\ ret.done = 2
    /\ ret.list[1][1] = ret.list[2][1]
    /\ products[ret.list[1][1]].promotion # NoPromotion
    /\ StockTracked(products[ret.list[1][1]])
    /\ ret.value > 0

(* ================== claims on one product, continued =================== *)
(* C14: set_quantity(n) with n negative fails with InvalidQuantity and     *)
(* changes nothing; with n = 0 it sets quantity 0 and makes the product    *)
(* inactive; with n > 0 it sets quantity n and leaves active as it was.    *)
C14_SetQuantity ==
    [][ret'.op = "set_quantity" =>
         LET o == ret'.obj
             n == ret'.q
             p == products[o]
         IN /\ n < 0 => (ret'.err = "InvalidQuantity" /\ products' = products)
            /\ n = 0 => /\ ret'.err = "none"
                        /\ products'[o] = [p EXCEPT !.quantity = 0, !.active = FALSE]
            /\ n > 0 => /\ ret'.err = "none"
                        /\ products'[o] = [p EXCEPT !.quantity = n]
            /\ store' = store
      ]_vars

(* set_quantity of a positive quantity on an inactive product *)
C14_Witness ==
    /\ ret.op = "set_quantity" /\ ret.err = "none" /\ ret.q > 0
    /\ products[ret.obj].quantity = ret.q
    /\ products[ret.obj].active = FALSE

(* C15: activate() at quantity 0 returns false and changes nothing, at a   *)
(* quantity above 0 it sets active and returns true; deactivate() sets     *)
(* active to false and changes nothing else.                               *)
C15_ActivateDeactivate ==
    [][/\ ret'.op = "activate" =>
            LET o == ret'.obj
                p == products[o]
            IN /\ p.quantity = 0 => (ret'.value = 0 /\ products' = products)
               /\ p.quantity > 0 => /\ ret'.value = 1
                                    /\ products'[o] = [p EXCEPT !.active = TRUE]
               /\ store' = store
       /\ ret'.op = "deactivate" =>
            /\ products'[ret'.obj] = [products[ret'.obj] EXCEPT !.active = FALSE]
            /\ store' = store
      ]_vars

(* activate() refused on an emptied, inactive product *)
C15_Witness ==
    /\ ret.op = "activate" /\ ret.value = 0
    /\ products[ret.obj].quantity = 0
    /\ products[ret.obj].active = FALSE
    /\ StockTracked(products[ret.obj])

C17_ThirdOneFree ==
    [][(BuyStep /\ ret'.err = "none"
          /\ products[ret'.obj].promotion.type = "ThirdOneFree") =>
         LET p == products[ret'.obj]
             q == ret'.q
         IN /\ ret'.value = 100 * ((q - (q \div 3)) * p.price)
            /\ apply_promotion(p.promotion, [price |-> 90], 3) = 100 * 180
            /\ apply_promotion(p.promotion, [price |-> 90], 5) = 100 * 360
            /\ products'[ret'.obj] =
                 IF p.kind = "NonStocked" THEN p
                 ELSE [p EXCEPT !.quantity = p.quantity - q,
                                !.active = IF p.quantity = q THEN FALSE ELSE p.active]
      ]_vars

(* a buy of four units under ThirdOneFree: three are paid *)
C17_Witness ==
    /\ ret.op = "buy" /\ ret.err = "none" /\ ret.q > 3
    /\ products[ret.obj].promotion.type = "ThirdOneFree"
    /\ products[ret.obj].price > 0
    /\ ret.value = 100 * (ret.q - 1) * products[ret.obj].price

(* C18: construction succeeds exactly when the name is not empty, the      *)
(* price is >= 0 and the quantity is >= 0, and then yields a product with  *)
(* those values; otherwise it fails and no product is created.  (The       *)
(* quantity of a NonStocked product is the 0 its constructor passes on.)   *)
C18_Construction ==
    [][ret'.op = "construct" =>
         \A kind \in Kinds, name \in Names, price \in Prices,
            quantity \in Quantities, maximum \in Maximums :
            Construct(kind, name, price, quantity, maximum) =>
               LET qty == IF kind = "NonStocked" THEN 0 ELSE quantity
                   valid == name # "" /\ price >= 0 /\ qty >= 0
               IN /\ valid <=> ret'.err = "none"
                  /\ valid =>
                       /\ Len(products') = Len(products) + 1
                       /\ SubSeq(products', 1, Len(products)) = products
                       /\ products'[Len(products')].kind = kind
                       /\ products'[Len(products')].name = name
                       /\ products'[Len(products')].price = price
                       /\ products'[Len(products')].quantity = qty
                  /\ ~valid => (ret'.err = "InvalidAttribute" /\ products' = products)
      ]_vars

(* a product constructed at the boundary: price 0 and quantity 0 *)
C18_Witness ==
    /\ ret.op = "construct" /\ ret.err = "none"
    /\ Len(products) = 1
    /\ products[1].name # ""
    /\ products[1].price = 0
    /\ products[1].quantity = 0
    /\ products[1].kind = "Standard"

(* C19: buy on a product whose active flag is false never succeeds and     *)
(* never changes its stock.  (Stated as claimed; no buy method reads the   *)
(* flag, so a deactivated product with stock is sold.)                     *)
C19_InactiveNotBought ==
    [][(BuyStep /\ products[ret'.obj].active = FALSE) =>
         /\ ret'.err # "none"
         /\ products'[ret'.obj].quantity = products[ret'.obj].quantity
      ]_vars

(* ======================= claims on the product list ==================== *)
(* The sum of the quantities at the positions I of the list. *)
RECURSIVE QuantityAt(_)
QuantityAt(I) ==
    IF I = {} THEN 0
    ELSE LET i == CHOOSE j \in I : TRUE
         IN products[store[i]].quantity + QuantityAt(I \ {i})

IsActive(o) == products[o].active

(* C11: get_all_products() returns exactly the stored products whose       *)
(* active flag is true, in insertion order; an inactive product stays in   *)
(* the list and get_total_quantity() still counts its quantity.            *)
C11_ActiveListing ==
    [][/\ ret'.op = "get_all_products" =>
            /\ ret'.list = SelectSeq(store, IsActive)
            /\ products' = products /\ store' = store
       /\ ret'.op = "get_total_quantity" =>
            /\ ret'.value = QuantityAt({i \in DOMAIN store : IsActive(store[i])})
                            + QuantityAt({i \in DOMAIN store : ~IsActive(store[i])})
            /\ products' = products /\ store' = store
      ]_vars

(* a listing that leaves out a product emptied by a buy and shows another *)
C11_Witness ==
    /\ ret.op = "get_all_products"
    /\ Len(store) = 2
    /\ Len(ret.list) = 1
    /\ \E i \in DOMAIN store :
          /\ products[store[i]].quantity = 0
          /\ ~products[store[i]].active
          /\ ret.list[1] # store[i]

(* C12: add_product(p) fails with DuplicateProduct and leaves the list     *)
(* unchanged when p is already in it; otherwise p becomes the last entry   *)
(* and the earlier entries stay as and where they were.                    *)
C12_AddProduct ==
    [][ret'.op = "add_product" =>
         LET o == ret'.obj
             present == \E i \in DOMAIN store : store[i] = o
         IN /\ present => (ret'.err = "DuplicateProduct" /\ store' = store)
            /\ ~present => /\ ret'.err = "none"
                           /\ Len(store') = Len(store) + 1
                           /\ store'[Len(store')] = o
                           /\ \A i \in DOMAIN store : store'[i] = store[i]
            /\ products' = products
      ]_vars

(* a product appended behind another one *)
C12_Witness ==
    /\ ret.op = "add_product" /\ ret.err = "none"
    /\ Len(store) = 2
    /\ store[2] = ret.obj
    /\ store[1] # ret.obj

C20_UniqueNames ==
    \A i, j \in DOMAIN store :
        i # j => products[store[i]].name # products[store[j]].name

(* ===================== claims on the promotion rule ==================== *)
(* C21: under SecondHalfPrice every second item is half price: of q units  *)
(* exactly q div 2 are charged half the unit price and the other           *)
(* q - q div 2 the full price.  (Stated as claimed; for q > 1 the rule     *)
(* charges q div 2 units in full and the others at half price, so three    *)
(* units cost two unit prices, not two and a half.)                        *)
C21_EverySecondHalfPrice ==
    [][(BuyStep /\ ret'.err = "none"
          /\ products[ret'.obj].promotion.type = "SecondHalfPrice") =>
         LET price == products[ret'.obj].price
             q == ret'.q
             half == q \div 2
             full == q - half
         IN ret'.value = (full * price * 100) + (half * price * 50)
      ]_vars

(* ================== the store menu: start(best_buy) ==================== *)
(* What the user types at "Which product # do you want?": a number from    *)
(* -1 to one past the number of products.                                  *)
MenuChoices == (0 - 1)..(MaxObjs + 1)

(* product_index = int(product_choice) - 1;                                *)
(* product = best_buy.get_all_products()[product_index]                    *)
(* "0" is refused; an index below zero counts from the end of the list; an *)
(* index outside the list is an IndexError (0 here: no product).           *)
MenuProduct(ps, stored, product_choice) ==
    LET listed == ActiveProducts(ps, stored)
        product_index == product_choice - 1
    IN IF product_choice = 0 THEN 0
       ELSE IF product_index >= 0
            THEN (IF product_index < Len(listed) THEN listed[product_index + 1] ELSE 0)
            ELSE (IF 0 - product_index <= Len(listed)
                  THEN listed[Len(listed) + product_index + 1] ELSE 0)

(* The checks between the quantity prompt and shopping_list.append. *)
MenuAccepts(p, quantity) ==
    /\ ~(quantity <= 0)
    /\ ~(p.kind = "Limited" /\ quantity > p.maximum)
    /\ ~(p.kind # "NonStocked" /\ quantity > p.quantity)

(* The shopping list the loop has assembled when the user enters the       *)
(* empty text: a refused entry is skipped (continue), an accepted one      *)
(* appended.  Nothing is bought before the loop ends, so every entry is    *)
(* checked against the same products.                                      *)
RECURSIVE MenuList(_, _, _)
MenuList(ps, stored, entries) ==
    IF entries = <<>> THEN <<>>
    ELSE LET product == MenuProduct(ps, stored, Head(entries)[1])
             quantity == Head(entries)[2]
         IN (IF product # 0 /\ MenuAccepts(ps[product], quantity)
             THEN << <<product, quantity>> >> ELSE <<>>)
            \o MenuList(ps, stored, Tail(entries))

(* The menu runs until order raises: nothing in start() catches the        *)
(* ValueError of a failed buy.                                             *)
MenuRunning == ~(ret.op = "order" /\ ret.err # "none")

(* user_choice == "3": the entries are read, then the list is ordered. *)
MakeAnOrder(entries) ==
    /\ MenuRunning
    /\ Order(MenuList(products, store, entries))

MenuEntries == MenuChoices \X OrderQuantities

MakeAnOrderAny ==
    \E entries \in UNION { [1..n -> MenuEntries] : n \in 0..MaxLines } :
        MakeAnOrder(entries)

(* user_choice == "1" *)
ListAllProducts == MenuRunning /\ GetAllProducts

(* user_choice == "2" *)
ShowTotalAmount == MenuRunning /\ GetTotalQuantity

NextMenu ==
    \/ ListAllProducts
    \/ ShowTotalAmount
    \/ MakeAnOrderAny

SpecMenu == InitStore /\ [][NextMenu]_vars

(* ===================== claims on the store menu ======================== *)
(* A line the menu accepts in the state it is entered in: its product is   *)
(* listed as active and the quantity is positive, at most a Limited        *)
(* product's maximum and at most the stock of a stock-tracked product.     *)
LineAccepted(ps, stored, line) ==
    /\ \E i \in DOMAIN stored : stored[i] = line[1]
    /\ ps[line[1]].active
    /\ line[2] >= 1
    /\ ps[line[1]].kind = "Limited" => line[2] <= ps[line[1]].maximum
    /\ StockTracked(ps[line[1]]) => line[2] <= ps[line[1]].quantity

(* C22: every shopping list the menu loop assembles in one checkout is     *)
(* fulfilled by order without any line failing, lists that name one        *)
(* product on several lines included.  (Stated as claimed; two accepted    *)
(* lines of one product can together exceed its stock.)                    *)
C22_MenuOrderNeverFails ==
    [][(OrderStep /\ \A i \in DOMAIN ret'.list :
                        LineAccepted(products, store, ret'.list[i]))
         => (ret'.err = "none" /\ ret'.done = Len(ret'.list))
      ]_vars

(* ============ a store handed any list, its products bought ============= *)
(* Store(products): the list is kept as given, an entry may repeat and a   *)
(* product may be left out.                                                *)
StoreLists == UNION { [1..n -> 1..MaxObjs] : n \in 0..MaxObjs }

(* Products fresh from their constructors, of every kind; a Limited one    *)
(* has the largest maximum.                                                *)
PurchaseProducts ==
    { NewProduct(kind, "A", price,
                 IF kind = "NonStocked" THEN 0 ELSE quantity,
                 IF kind = "Limited" THEN MaxMaximum ELSE 0) :
        kind \in Kinds, price \in StorePrices, quantity \in 0..MaxStock }

InitPurchases ==
    /\ products \in [1..MaxObjs -> PurchaseProducts]
    /\ store \in StoreLists
    /\ ret = NoCall

NextPurchases ==
    \/ BuyStocked
    \/ OrderAny
    \/ GetTotalQuantity

SpecPurchases == InitPurchases /\ [][NextPurchases]_vars

(* ==================== claims on stock conservation ===================== *)
(* The stock at the first n positions of the store's list. *)
RECURSIVE StockAt(_, _, _)
StockAt(ps, stored, n) ==
    IF n = 0 THEN 0 ELSE StockAt(ps, stored, n - 1) + ps[stored[n]].quantity

(* The units lines 1..n of a shopping list take from the stock-tracked     *)
(* products in `among`.                                                    *)
RECURSIVE UnitsTaken(_, _, _, _)
UnitsTaken(ps, among, shopping_list, n) ==
    IF n = 0 THEN 0
    ELSE UnitsTaken(ps, among, shopping_list, n - 1)
         + (IF shopping_list[n][1] \in among /\ StockTracked(ps[shopping_list[n][1]])
            THEN shopping_list[n][2] ELSE 0)

Stored == { store[i] : i \in DOMAIN store }

EachListedOnce == \A i, j \in DOMAIN store : store[i] = store[j] => i = j

(* What one call of buy, order or get_total_quantity does to the total     *)
(* get_total_quantity() reports: a successful buy of a Standard or Limited *)
(* product of the store lowers it by the quantity bought, an order by the  *)
(* quantities of its successful lines on such products (those of an order  *)
(* that then failed included), a failed buy or a NonStocked purchase by    *)
(* nothing; and get_total_quantity() returns it.                           *)
TotalFollowsPurchases ==
    LET before == StockAt(products, store, Len(store))
        after == StockAt(products', store', Len(store'))
    IN /\ BuyStep =>
            after = before - (IF ret'.err = "none"
                              THEN UnitsTaken(products, Stored,
                                              << <<ret'.obj, ret'.q>> >>, 1)
                              ELSE 0)
       /\ OrderStep =>
            after = before - UnitsTaken(products, Stored, ret'.list, ret'.done)
       /\ ret'.op = "get_total_quantity" =>
            (ret'.value = before /\ after = before)

(* C23 as claimed: in a run of buy and order calls, get_total_quantity()   *)
(* equals the initial total less the quantities of all successful buys of  *)
(* Standard and Limited products, step by step: each call lowers the total *)
(* by exactly the units it bought.  (A product the list names twice is     *)
(* summed twice, so one unit bought lowers the total by two.)              *)
C23_StockConserved ==
    [][TotalFollowsPurchases]_vars

(* C23, amended: in a store whose list names every product at most once,   *)
(* each buy or order lowers the total get_total_quantity() reports by      *)
(* exactly the units it bought of the store's Standard and Limited         *)
(* products, and failed buys and NonStocked purchases lower it by nothing. *)
C23_StockConservedListedOnce ==
    [][EachListedOnce => TotalFollowsPurchases]_vars

(* an order that failed at its second line after buying a listed,          *)
(* stock-tracked product at its first, in a store listing each product     *)
(* once                                                                    *)
C23_Witness ==
    /\ ret.op = "order" /\ ret.err # "none" /\ ret.done = 1
    /\ EachListedOnce /\ Len(store) = MaxObjs
    /\ StockTracked(products[ret.list[1][1]])
    /\ ret.list[1][2] > 1

====
